---- MODULE Spec2Model ----
(***************************************************************************)
(* State-machine model of H5PEditor.Library (scripts/h5peditor-library.js): *)
(* the library selector widget, its selection control, its confirmation    *)
(* dialogs, the asynchronous library-list and schema loads, and paste.     *)
(***************************************************************************)
EXTENDS Integers, Sequences, FiniteSets, TLC

VARIABLES
  field,              \* this.field: the field descriptor (its optional flag)
  params,             \* this.params: the parameter object, a map from own keys to values
  paramsRef,          \* identity of the object this.params refers to
  currentLibrary,     \* this.currentLibrary
  libraries,          \* this.libraries: [def, list]
  children,           \* this.children: [def, list]
  metadataForm,       \* this.metadataForm: [kind, children]
  selectVal,          \* this.$select.val()
  options,            \* option values of this.$select
  selectHidden,       \* this.$select (and the copy/paste buttons) hidden
  copyDisabled,       \* this.$copyButton has class 'disabled'
  pasteDisabled,      \* this.$pasteButton has class 'disabled'
  runChangeCallback,  \* this.runChangeCallback
  libwrapClass,       \* class attribute of this.$libraryWrapper
  changes,            \* this.changes: registered callbacks
  lastRun,            \* invocations made by the latest change() run
  fetches,            \* schema fetches in flight (callbacks of ns.loadLibrary)
  commonFields,       \* ancestor.commonFields: library path -> field name -> entry
  detached,           \* the select's parent element has been removed from the DOM
  otherSelector,      \* another selector listening to the clipboard: [libraries, pasteDisabled]
  nextUUID,           \* the next identifier H5P.createUUID hands out
  pendingChange,      \* setTimeout callbacks of the select change handler not yet run
  confirmOpen,        \* this.confirmChangeLibrary is shown
  pasteDialog,        \* the confirmReplace dialog of a paste: [open, clip]
  clipboard,          \* H5P.getClipboard()
  lastOp              \* the handler that ran last

vars == <<field, params, paramsRef, currentLibrary, libraries, children, metadataForm,
          selectVal, options, selectHidden, copyDisabled, pasteDisabled,
          runChangeCallback, libwrapClass, changes, lastRun, fetches, nextUUID,
          commonFields, detached, otherSelector, pendingChange,
          confirmOpen, pasteDialog, clipboard, lastOp>>

----------------------------------------------------------------------------
(* Bounds of the model *)

\* schema fetches that may be in flight at once
MaxFetches == 2

\* largest identifier H5P.createUUID hands out
MaxUUID == 4

----------------------------------------------------------------------------
(* JavaScript values *)

Undef == "undefined"
Null == "null"
NONE == "-"
EmptyObj == "{}"

\* an object with no own keys
Obj0 == [k \in {} |-> Undef]

Has(o, k) == k \in DOMAIN o

\* delete o[k]
Del(o, k) == [x \in (DOMAIN o) \ {k} |-> o[x]]

\* o[k] = v
Put(o, k, v) == [x \in (DOMAIN o) \cup {k} |-> IF x = k THEN v ELSE o[x]]

\* o.library, undefined when the key is absent
LibraryOf(o) == IF Has(o, "library") THEN o["library"] ELSE Undef

----------------------------------------------------------------------------
(* Inputs: library descriptors, library lists, initial parameters, clipboards *)

\* the metadata settings a descriptor may carry: absent, or an object
NoSettings == [def |-> FALSE, disable |-> FALSE, disableExtraTitleField |-> FALSE]
Settings(d, x) == [def |-> TRUE, disable |-> d, disableExtraTitleField |-> x]

DescriptorWith(u, t, r, m) == [uberName |-> u, title |-> t, restricted |-> r, metadata |-> m]
Descriptor(u, t, r) == DescriptorWith(u, t, r, NoSettings)

DescA == Descriptor("A", "Title A", FALSE)
DescB == DescriptorWith("B", "Title B", FALSE, Settings(FALSE, TRUE))
DescR == Descriptor("R", "Title R", TRUE)

\* the lists the registry may answer with
LibLists == { <<>>, <<DescA>>, <<DescA, DescB, DescR>> }

\* saved content handed to the constructor
GivenA == ("library" :> "A") @@ ("params" :> "pA") @@ ("subContentId" :> 1) @@ ("metadata" :> "mA")
GivenLegacy == ("library" :> "A") @@ ("params" :> "pA")

NoGiven == [given |-> FALSE, obj |-> Obj0]
Given(o) == [given |-> TRUE, obj |-> o]
ConstructorArgs == { NoGiven, Given(GivenA), Given(GivenLegacy) }

\* clipboard values
NoClip == [present |-> FALSE, hasGeneric |-> FALSE, generic |-> Obj0]
ClipNoGeneric == [present |-> TRUE, hasGeneric |-> FALSE, generic |-> Obj0]
ClipOf(g) == [present |-> TRUE, hasGeneric |-> TRUE, generic |-> g]

GenericB == ("library" :> "B") @@ ("params" :> "cB")
GenericR == ("library" :> "R") @@ ("params" :> "cR") @@ ("subContentId" :> 2) @@ ("metadata" :> "nR")
GenericX == ("library" :> "X") @@ ("params" :> "cX")
GenericNoLib == ("params" :> "cN")

ClipValues == { NoClip, ClipNoGeneric, ClipOf(GenericB),
                ClipOf(GenericR), ClipOf(GenericX), ClipOf(GenericNoLib) }

\* callbacks that may be registered with change(callback)
MaxCallbacks == 2

\* largest list in the lists of arbitrary descriptors
MaxListLen == 2

\* descriptors of libraries A and B with and without a title, restricted or not
ArrivingDescriptors ==
  { Descriptor(u, ti, r) : u \in {"A", "B"}, ti \in {"Title", Undef}, r \in BOOLEAN }

\* every list of at most MaxListLen such descriptors, each library at most once
ArrivingLists ==
  { l \in UNION { [1..n -> ArrivingDescriptors] : n \in 0..MaxListLen } :
      \A i, j \in 1..Len(l) : l[i].uberName = l[j].uberName => i = j }

\* what the shared clipboard holds in this model
ClipboardStates == { NoClip, ClipOf(GenericB) }

----------------------------------------------------------------------------
(* The selector object as a record, and its assignment to the variables *)

Cur == [params |-> params, paramsRef |-> paramsRef, currentLibrary |-> currentLibrary,
        libraries |-> libraries, children |-> children, metadataForm |-> metadataForm,
        selectVal |-> selectVal, options |-> options, selectHidden |-> selectHidden,
        copyDisabled |-> copyDisabled, pasteDisabled |-> pasteDisabled,
        runChangeCallback |-> runChangeCallback, libwrapClass |-> libwrapClass,
        changes |-> changes,
        lastRun |-> lastRun, fetches |-> fetches, nextUUID |-> nextUUID,
        commonFields |-> commonFields, detached |-> detached,
        otherSelector |-> otherSelector]

Apply(s) ==
  /\ params' = s.params
  /\ paramsRef' = s.paramsRef
  /\ currentLibrary' = s.currentLibrary
  /\ libraries' = s.libraries
  /\ children' = s.children
  /\ metadataForm' = s.metadataForm
  /\ selectVal' = s.selectVal
  /\ options' = s.options
  /\ selectHidden' = s.selectHidden
  /\ copyDisabled' = s.copyDisabled
  /\ pasteDisabled' = s.pasteDisabled
  /\ runChangeCallback' = s.runChangeCallback
  /\ libwrapClass' = s.libwrapClass
  /\ changes' = s.changes
  /\ lastRun' = s.lastRun
  /\ fetches' = s.fetches
  /\ nextUUID' = s.nextUUID
  /\ commonFields' = s.commonFields
  /\ detached' = s.detached
  /\ otherSelector' = s.otherSelector

selfVars == <<params, paramsRef, currentLibrary, libraries, children, metadataForm,
              selectVal, options, selectHidden, copyDisabled, pasteDisabled,
              runChangeCallback, libwrapClass, changes, lastRun, fetches, nextUUID,
              commonFields, detached, otherSelector>>

----------------------------------------------------------------------------
(* Collaborators of the selector that live outside h5peditor-library.js *)

\* ns.enableMetadata(libraryName): the per-library metadata policy
enableMetadata(libraryName) == libraryName \in {"A", "R"}

\* number of fields in a library's semantics
NumFields(libraryName) == IF libraryName = "B" THEN 2 ELSE 1

\* ns.processSemanticsChunk: creates parent.children and fills it with one
\* field instance per field of the semantics
processSemanticsChunk(libraryName) ==
  [i \in 1..NumFields(libraryName) |->
     [lib |-> libraryName, valid |-> TRUE, removed |-> FALSE]]

\* new ns.MetadataForm(...): a form with its own child fields
NewMetadataForm == [kind |-> "form", children |-> <<[valid |-> TRUE, removed |-> FALSE]>>]
NoMetadataForm == [kind |-> Undef, children |-> <<>>]
NullMetadataForm == [kind |-> Null, children |-> <<>>]

\* ns.removeChildren(children): calls remove() on every instance of the array
\* it is handed; the array itself keeps its entries
nsRemoveChildren(list) == [i \in 1..Len(list) |-> [list[i] EXCEPT !.removed = TRUE]]

\* the selectors under the ancestor: this one and another one
THIS == "this"
OTHER_SELECTOR == "other"

\* names of the fields a library's semantics marks as common
CommonFieldNames(libraryName) == IF libraryName = "C" THEN {"f"} ELSE {}

\* ancestor.commonFields without entries
NoCommonFields == [path \in {} |-> Undef]

\* a common field entry: the selectors sharing the instance and their setters
CommonField(ps, ss) == [parents |-> ps, setValues |-> ss]

\* the setValue function a selector registers
SetValueOf(selector) == <<"setValue", selector>>

\* ns.processSemanticsChunk for a common field (ns.addCommonField): the entry
\* under parent.currentLibrary is created when missing, and the parent and its
\* setter are pushed
addCommonField(table, libraryName, name, parent) ==
  LET fields == IF libraryName \in DOMAIN table THEN table[libraryName]
                ELSE [n \in {} |-> CommonField(<<>>, <<>>)]
      old == IF name \in DOMAIN fields THEN fields[name] ELSE CommonField(<<>>, <<>>)
      new == CommonField(Append(old.parents, parent),
                         Append(old.setValues, SetValueOf(parent)))
      fields2 == [n \in (DOMAIN fields) \cup {name} |->
                    IF n = name THEN new ELSE fields[n]]
  IN [p \in (DOMAIN table) \cup {libraryName} |->
        IF p = libraryName THEN fields2 ELSE table[p]]

\* the table after the common fields of a library were processed for a parent
addCommonFields(table, libraryName, parent) ==
  IF CommonFieldNames(libraryName) = {} THEN table
  ELSE addCommonField(table, libraryName, "f", parent)

\* the table after the other selector rendered library C
OtherHasC == addCommonFields(NoCommonFields, "C", OTHER_SELECTOR)

\* ns.confirmReplace(library, top, next): asks for confirmation when a library
\* is set and runs next at once otherwise
nsConfirmReplaceAsks(library) == library # Undef

\* jQuery: $select.val(v) selects the option with that value, and nothing
\* when no option has it ($select.val() is then null)
SelectSet(opts, v) == IF \E i \in 1..Len(opts) : opts[i] = v THEN v ELSE Null

----------------------------------------------------------------------------
(* Methods of ns.Library, as functions from the selector record to the record *)

\* canPasteFrom returning false at the first descriptor that does not match
canPasteFrom_FirstOnly(libs, lib, i) ==
  IF i > Len(libs) THEN FALSE ELSE libs[i].uberName = lib

\* the loop of canPaste from index i on
RECURSIVE canPasteFrom(_, _, _)
canPasteFrom(libs, lib, i) ==
  IF i > Len(libs) THEN FALSE
  ELSE IF libs[i].uberName = lib THEN TRUE
  ELSE canPasteFrom(libs, lib, i + 1)

canPaste(libs, clip) ==
  IF clip.present /\ clip.hasGeneric
  THEN canPasteFrom(libs, LibraryOf(clip.generic), 1)
  ELSE FALSE

\* array.splice(i, 1)
Splice(seq, i) == [j \in 1..(Len(seq) - 1) |-> IF j < i THEN seq[j] ELSE seq[j + 1]]

\* the loop over field.parents: this selector's entries are spliced out of
\* parents and setValues, the index moving on after a splice
RECURSIVE spliceParents(_, _)
spliceParents(fld, i) ==
  IF i > Len(fld.parents) THEN fld
  ELSE IF fld.parents[i] = THIS
       THEN spliceParents(CommonField(Splice(fld.parents, i), Splice(fld.setValues, i)),
                          i + 1)
       ELSE spliceParents(fld, i + 1)

\* libraryPath.split('/')[0]
LibraryOfPath(path) == path

\* the loop of removeChildren over ancestor.commonFields
removeCommonFields(table, cur) ==
  LET Mine(p) == LibraryOfPath(p) = cur
      Removes(p) == \E n \in DOMAIN table[p] : Len(table[p][n].parents) = 1
      kept == { p \in DOMAIN table : ~(Mine(p) /\ Removes(p)) }
  IN [p \in kept |->
        IF Mine(p)
        THEN [n \in DOMAIN table[p] |-> spliceParents(table[p][n], 1)]
        ELSE table[p]]

removeChildren(s) ==
  LET s1 == IF s.metadataForm.kind = "form"
            THEN [s EXCEPT !.metadataForm.children = nsRemoveChildren(@)]
            ELSE s
  IN IF s1.currentLibrary = NONE \/ ~s1.children.def
     THEN s1
     ELSE [s1 EXCEPT !.commonFields = removeCommonFields(@, s1.currentLibrary),
                     !.children.list = nsRemoveChildren(@)]

\* remove()
remove(s) == [removeChildren(s) EXCEPT !.detached = TRUE]

\* 'libwrap ' + libraryName.split(' ')[0].toLowerCase().replace('.', '-') + '-editor'
EditorClass(libraryName) ==
  CASE libraryName = "A" -> "libwrap a-editor"
    [] libraryName = "B" -> "libwrap b-editor"
    [] libraryName = "R" -> "libwrap r-editor"
    [] libraryName = "C" -> "libwrap c-editor"
    [] OTHER -> "libwrap x-editor"

\* loadLibrary whose '-' branch leaves params.library in place
loadLibrary_KeepLibrary(s, libraryName, preserveParams) ==
  LET s1 == removeChildren(s)
  IN IF libraryName = NONE
     THEN [s1 EXCEPT !.params = Del(Del(Del(@, "params"), "subContentId"), "metadata"),
                     !.libwrapClass = "libwrap",
                     !.copyDisabled = TRUE]
     ELSE [s1 EXCEPT !.libwrapClass = EditorClass(libraryName),
                     !.fetches = Append(@, [lib |-> libraryName,
                                            preserve |-> preserveParams])]

\* loadLibrary whose '-' branch leaves the copy button as it is
loadLibrary_CopyStaysEnabled(s, libraryName, preserveParams) ==
  LET s1 == removeChildren(s)
  IN IF libraryName = NONE
     THEN [s1 EXCEPT !.params = Del(Del(Del(Del(@, "library"), "params"),
                                        "subContentId"), "metadata"),
                     !.libwrapClass = "libwrap"]
     ELSE [s1 EXCEPT !.libwrapClass = EditorClass(libraryName),
                     !.fetches = Append(@, [lib |-> libraryName,
                                            preserve |-> preserveParams])]

\* loadLibrary up to the point where the schema fetch is issued
loadLibrary(s, libraryName, preserveParams) ==
  LET s1 == removeChildren(s)
  IN IF libraryName = NONE
     THEN [s1 EXCEPT !.params = Del(Del(Del(Del(@, "library"), "params"),
                                        "subContentId"), "metadata"),
                     !.libwrapClass = "libwrap",
                     !.copyDisabled = TRUE]
     ELSE [s1 EXCEPT !.libwrapClass = EditorClass(libraryName),
                     !.fetches = Append(@, [lib |-> libraryName,
                                            preserve |-> preserveParams])]

\* the loop compares each uberName with this.libraryName, which is never
\* assigned, and on a match assigns to 'library', not to 'metadata': the local
\* 'metadata' is undefined at the return and the default is returned
findLibraryMetadataSettings(s, libraryName) ==
  LET metadata == NoSettings
  IN IF metadata.def
     THEN [disable |-> metadata.disable,
           disableExtraTitleField |-> metadata.disableExtraTitleField]
     ELSE [disable |-> ~enableMetadata(libraryName), disableExtraTitleField |-> FALSE]

\* the local variable 'library' of change(): left undefined, or a descriptor
NotFound == [found |-> FALSE, desc |-> Descriptor(Undef, Undef, FALSE)]
Found(d) == [found |-> TRUE, desc |-> d]

\* the descriptor change() hands to the callbacks: the first whose uberName is
\* the current library, undefined when there is none
RECURSIVE findCurrent(_, _, _)
findCurrent(libs, cur, i) ==
  IF i > Len(libs) THEN NotFound
  ELSE IF libs[i].uberName = cur THEN Found(libs[i])
  ELSE findCurrent(libs, cur, i + 1)

\* change() running the callbacks from the last registered to the first
change_Reversed(s) ==
  LET library == findCurrent(s.libraries.list, s.currentLibrary, 1)
      n == Len(s.changes)
  IN [s EXCEPT !.lastRun = [i \in 1..n |->
                              [callback |-> s.changes[n + 1 - i], library |-> library]]]

\* change() without a callback
change(s) ==
  LET library == findCurrent(s.libraries.list, s.currentLibrary, 1)
  IN [s EXCEPT !.lastRun = [i \in 1..Len(s.changes) |->
                              [callback |-> s.changes[i], library |-> library]]]

\* change(callback)
changeCallback(s, callback) == [s EXCEPT !.changes = Append(@, callback)]

\* schemaParams without 'delete that.params.subContentId'
schemaParams_KeepId(p, libraryName, preserveParams, uuid) ==
  LET p1 == Put(p, "library", libraryName)
      p2 == IF ~preserveParams
            THEN Put(Put(p1, "params", EmptyObj), "metadata", EmptyObj)
            ELSE p1
      p3 == IF ~Has(p2, "subContentId") THEN Put(p2, "subContentId", uuid) ELSE p2
  IN IF ~Has(p3, "metadata") THEN Put(p3, "metadata", EmptyObj) ELSE p3

\* the parameter object after the schema callback's updates
schemaParams(p, libraryName, preserveParams, uuid) ==
  LET p1 == Put(p, "library", libraryName)
      p2 == IF ~preserveParams
            THEN Put(Put(Del(p1, "subContentId"), "params", EmptyObj), "metadata", EmptyObj)
            ELSE p1
      p3 == IF ~Has(p2, "subContentId") THEN Put(p2, "subContentId", uuid) ELSE p2
  IN IF ~Has(p3, "metadata") THEN Put(p3, "metadata", EmptyObj) ELSE p3

\* the callback loadLibrary hands to ns.loadLibrary
schemaCallback(s, libraryName, preserveParams) ==
  LET usesUUID == preserveParams => ~Has(s.params, "subContentId")
      s1 == [s EXCEPT !.currentLibrary = libraryName,
                      !.params = schemaParams(@, libraryName, preserveParams, s.nextUUID),
                      !.nextUUID = IF usesUUID THEN @ + 1 ELSE @]
  IN IF ~s1.libraries.def
     THEN s1   \* findLibraryMetadataSettings reads this.libraries.length and throws
     ELSE LET metadataSettings == findLibraryMetadataSettings(s1, libraryName)
              s2 == [s1 EXCEPT !.metadataForm = IF ~metadataSettings.disable
                                                THEN NewMetadataForm
                                                ELSE NullMetadataForm,
                               !.children = [def |-> TRUE,
                                             list |-> processSemanticsChunk(libraryName)],
                               !.commonFields = addCommonFields(@, libraryName, THIS),
                               !.copyDisabled = FALSE]
          IN change(s2)

\* optionsFrom rendering only descriptors with a title
RECURSIVE optionsFrom_TitledOnly(_, _, _)
optionsFrom_TitledOnly(libs, selected, i) ==
  IF i > Len(libs) THEN <<>>
  ELSE IF libs[i].title # Undef /\ (libs[i].uberName = selected \/ ~libs[i].restricted)
       THEN <<libs[i].uberName>> \o optionsFrom_TitledOnly(libs, selected, i + 1)
       ELSE optionsFrom_TitledOnly(libs, selected, i + 1)

\* the option values librariesLoaded renders after the '-' option
RECURSIVE optionsFrom(_, _, _)
optionsFrom(libs, selected, i) ==
  IF i > Len(libs) THEN <<>>
  ELSE IF libs[i].uberName = selected
          \/ (libs[i].title # Undef /\ ~libs[i].restricted)
       THEN <<libs[i].uberName>> \o optionsFrom(libs, selected, i + 1)
       ELSE optionsFrom(libs, selected, i + 1)

librariesLoaded(s, libList, clip) ==
  LET opts == <<NONE>> \o optionsFrom(libList, LibraryOf(s.params), 1)
      s1 == [s EXCEPT !.libraries = [def |-> TRUE, list |-> libList],
                      !.options = opts,
                      !.selectVal = IF Has(s.params, "library")
                                       /\ \E i \in 1..Len(opts) : opts[i] = s.params["library"]
                                    THEN s.params["library"]
                                    ELSE opts[1]]
      s2 == IF Len(libList) = 1
            THEN loadLibrary([s1 EXCEPT !.selectHidden = TRUE], opts[Len(opts)], TRUE)
            ELSE IF canPaste(libList, clip)
                 THEN [s1 EXCEPT !.pasteDisabled = FALSE]
                 ELSE s1
      s3 == IF s2.runChangeCallback
            THEN [change(s2) EXCEPT !.runChangeCallback = FALSE]
            ELSE s2
  IN IF Has(s3.params, "library")
     THEN loadLibrary(s3, s3.params["library"], TRUE)
     ELSE s3

\* the 'datainclipboard' handler with the reset flag ignored
dataInClipboard_IgnoreReset(libs, pasteDis, clip, reset) ==
  IF ~libs.def THEN pasteDis ELSE ~canPaste(libs.list, clip)

\* the 'datainclipboard' handler of a selector with list libs: whether its
\* paste button has class 'disabled' afterwards
dataInClipboard(libs, pasteDis, clip, reset) ==
  IF ~libs.def
  THEN pasteDis   \* libraries not loaded yet
  ELSE LET canPaste0 == ~reset
           canPaste1 == IF canPaste0 THEN canPaste(libs.list, clip) ELSE canPaste0
       IN ~canPaste1

\* the callback replaceContent hands to confirmReplace
\* "Delete old params (to keep object ref)": every own key is deleted
deleteOwn(o) == [k \in {} |-> Undef]

\* "Update params": every own key of the generic payload is assigned
copyOwn(o, generic) ==
  [k \in (DOMAIN o) \cup (DOMAIN generic) |->
     IF k \in DOMAIN generic THEN generic[k] ELSE o[k]]

replaceConfirmed(s, clip) ==
  LET s1 == [s EXCEPT !.selectVal = SelectSet(s.options, LibraryOf(clip.generic)),
                      !.params = copyOwn(deleteOwn(@), clip.generic)]
  IN loadLibrary(s1, LibraryOf(clip.generic), TRUE)

AllValidate(list) == \A i \in 1..Len(list) : list[i].valid

\* validate with 'valid = this.children[i].validate()' in the loop over the
\* children: the last child decides
validate_LastChild(s, fld) ==
  LET meta == IF s.metadataForm.kind = "form"
              THEN AllValidate(s.metadataForm.children)
              ELSE TRUE
      valid == IF s.children.def
               THEN IF Len(s.children.list) = 0
                    THEN meta
                    ELSE s.children.list[Len(s.children.list)].valid
               ELSE IF s.libraries.def /\ Len(s.libraries.list) > 0
                    THEN FALSE
                    ELSE meta
  IN IF fld.optional THEN TRUE ELSE valid

validate(s, fld) ==
  LET meta == IF s.metadataForm.kind = "form"
              THEN AllValidate(s.metadataForm.children)
              ELSE TRUE
      valid == IF s.children.def
               THEN meta /\ AllValidate(s.children.list)
               ELSE IF s.libraries.def /\ Len(s.libraries.list) > 0
                    THEN FALSE
                    ELSE meta
  IN IF fld.optional THEN TRUE ELSE valid

----------------------------------------------------------------------------
(* Initial state: the selector as its constructor and appendTo leave it *)

\* this.params after the constructor: a new object {params: {}} when no
\* parameters were given, the given object otherwise
constructorParams(arg) ==
  IF ~arg.given THEN ("params" :> EmptyObj) ELSE arg.obj

constructorRef(arg) == IF ~arg.given THEN "created" ELSE "given"

InitSelector ==
  /\ field \in { [optional |-> b] : b \in BOOLEAN }
  /\ \E arg \in ConstructorArgs :
       /\ params = constructorParams(arg)
       /\ paramsRef = constructorRef(arg)
  /\ currentLibrary = Undef
  /\ libraries = [def |-> FALSE, list |-> <<>>]
  /\ children = [def |-> FALSE, list |-> <<>>]
  /\ metadataForm = NoMetadataForm
  /\ selectVal = NONE
  /\ options = <<NONE>>
  /\ selectHidden = FALSE
  /\ copyDisabled = TRUE
  /\ pasteDisabled = TRUE
  /\ runChangeCallback = FALSE
  /\ libwrapClass = "libwrap"
  /\ changes = <<>>
  /\ lastRun = <<>>
  /\ fetches = <<>>
  /\ nextUUID = 3
  /\ pendingChange = 0
  /\ confirmOpen = FALSE
  /\ pasteDialog = [open |-> FALSE, clip |-> NoClip]
  /\ detached = FALSE
  /\ otherSelector = [libraries |-> [def |-> FALSE, list |-> <<>>], pasteDisabled |-> TRUE]
  /\ lastOp = "constructor"

\* the selector is created while the clipboard is empty, under an ancestor
\* without common fields
Init == InitSelector /\ clipboard = NoClip /\ commonFields = NoCommonFields

\* the selector is created whatever the clipboard holds
InitClipboard ==
  InitSelector /\ clipboard \in ClipboardStates /\ commonFields = NoCommonFields

\* the selector is created under an ancestor where another selector may
\* already have rendered library C
InitCommon ==
  InitSelector /\ clipboard = NoClip /\ commonFields \in {NoCommonFields, OtherHasC}

----------------------------------------------------------------------------
(* Actions: one per handler or callback *)

NoDialog == ~confirmOpen /\ ~pasteDialog.open

\* ns.LibraryListCache.getLibraries answers: librariesLoaded(libList) runs
LibrariesLoaded(libList) ==
  /\ ~libraries.def
  /\ Apply(librariesLoaded(Cur, libList, clipboard))
  /\ lastOp' = "librariesLoaded"
  /\ UNCHANGED <<field, pendingChange, confirmOpen, pasteDialog, clipboard>>

\* the user picks another option: the change handler defers its work
SelectChange(v) ==
  /\ libraries.def
  /\ ~selectHidden
  /\ NoDialog
  /\ pendingChange = 0
  /\ \E i \in 1..Len(options) : options[i] = v
  /\ v # selectVal
  /\ selectVal' = v
  /\ pendingChange' = pendingChange + 1
  /\ lastOp' = "selectChange"
  /\ UNCHANGED <<field, params, paramsRef, currentLibrary, libraries, children,
                 metadataForm, options, selectHidden, copyDisabled, pasteDisabled,
                 runChangeCallback, libwrapClass, changes, lastRun, fetches,
                 nextUUID, commonFields, detached, otherSelector, confirmOpen,
                 pasteDialog, clipboard>>

\* ChangeTimeout without the check of params.library: it always loads
ChangeTimeout_NoConfirm ==
  /\ pendingChange > 0
  /\ pendingChange' = pendingChange - 1
  /\ selectVal # NONE => Len(fetches) < MaxFetches
  /\ Apply(loadLibrary(Cur, selectVal, FALSE))
  /\ lastOp' = "changeLoads"
  /\ UNCHANGED <<field, confirmOpen, pasteDialog, clipboard>>

\* the deferred part of the change handler
ChangeTimeout ==
  /\ pendingChange > 0
  /\ pendingChange' = pendingChange - 1
  /\ IF Has(params, "library")
     THEN /\ confirmOpen' = TRUE
          /\ lastOp' = "changeAsksConfirmation"
          /\ UNCHANGED selfVars
     ELSE /\ selectVal # NONE => Len(fetches) < MaxFetches
          /\ Apply(loadLibrary(Cur, selectVal, FALSE))
          /\ lastOp' = "changeLoads"
          /\ UNCHANGED confirmOpen
  /\ UNCHANGED <<field, pasteDialog, clipboard>>

\* confirmChangeLibrary emits 'confirmed'
ConfirmChange ==
  /\ confirmOpen
  /\ selectVal # NONE => Len(fetches) < MaxFetches
  /\ confirmOpen' = FALSE
  /\ Apply(loadLibrary(Cur, selectVal, FALSE))
  /\ lastOp' = "changeConfirmed"
  /\ UNCHANGED <<field, pendingChange, pasteDialog, clipboard>>

\* confirmChangeLibrary emits 'canceled'
CancelChange ==
  /\ confirmOpen
  /\ confirmOpen' = FALSE
  /\ Apply([Cur EXCEPT !.selectVal = SelectSet(options, currentLibrary)])
  /\ lastOp' = "changeCanceled"
  /\ UNCHANGED <<field, pendingChange, pasteDialog, clipboard>>

\* a schema fetch completes: the callback of the i-th fetch in flight runs
SchemaLoaded(i) ==
  /\ i \in 1..Len(fetches)
  /\ nextUUID <= MaxUUID
  /\ LET f == fetches[i]
         rest == [j \in 1..(Len(fetches) - 1) |->
                    IF j < i THEN fetches[j] ELSE fetches[j + 1]]
     IN Apply(schemaCallback([Cur EXCEPT !.fetches = rest], f.lib, f.preserve))
  /\ lastOp' = "schemaLoaded"
  /\ UNCHANGED <<field, pendingChange, confirmOpen, pasteDialog, clipboard>>

\* ReplaceContent updating the selection control before the canPaste check
ReplaceContent_SelectFirst(clip) ==
  /\ NoDialog
  /\ pendingChange = 0
  /\ IF clip.present /\ clip.hasGeneric /\ ~libraries.def
     THEN /\ lastOp' = "replaceThrows"
          /\ UNCHANGED <<selfVars, pasteDialog>>
     ELSE IF ~canPaste(libraries.list, clip)
     THEN /\ lastOp' = "replaceRejected"
          /\ Apply([Cur EXCEPT !.selectVal = SelectSet(options, LibraryOf(clip.generic))])
          /\ UNCHANGED pasteDialog
     ELSE IF nsConfirmReplaceAsks(LibraryOf(params))
     THEN /\ pasteDialog' = [open |-> TRUE, clip |-> clip]
          /\ lastOp' = "replaceAsksConfirmation"
          /\ UNCHANGED selfVars
     ELSE /\ Len(fetches) < MaxFetches
          /\ Apply(replaceConfirmed(Cur, clip))
          /\ lastOp' = "replaceDone"
          /\ UNCHANGED pasteDialog
  /\ UNCHANGED <<field, pendingChange, confirmOpen, clipboard>>

\* replaceContent(clip)
ReplaceContent(clip) ==
  /\ NoDialog
  /\ pendingChange = 0
  /\ IF clip.present /\ clip.hasGeneric /\ ~libraries.def
     THEN \* canPaste reads this.libraries.length and throws
          /\ lastOp' = "replaceThrows"
          /\ UNCHANGED <<selfVars, pasteDialog>>
     ELSE IF ~canPaste(libraries.list, clip)
     THEN /\ lastOp' = "replaceRejected"
          /\ UNCHANGED <<selfVars, pasteDialog>>
     ELSE IF nsConfirmReplaceAsks(LibraryOf(params))
     THEN /\ pasteDialog' = [open |-> TRUE, clip |-> clip]
          /\ lastOp' = "replaceAsksConfirmation"
          /\ UNCHANGED selfVars
     ELSE /\ Len(fetches) < MaxFetches
          /\ Apply(replaceConfirmed(Cur, clip))
          /\ lastOp' = "replaceDone"
          /\ UNCHANGED pasteDialog
  /\ UNCHANGED <<field, pendingChange, confirmOpen, clipboard>>

\* the dialog of ns.confirmReplace is confirmed: the callback runs
ReplaceConfirm ==
  /\ pasteDialog.open
  /\ Len(fetches) < MaxFetches
  /\ Apply(replaceConfirmed(Cur, pasteDialog.clip))
  /\ pasteDialog' = [open |-> FALSE, clip |-> NoClip]
  /\ lastOp' = "replaceConfirmed"
  /\ UNCHANGED <<field, pendingChange, confirmOpen, clipboard>>

\* the dialog of ns.confirmReplace is dismissed: the callback never runs
ReplaceCancel ==
  /\ pasteDialog.open
  /\ pasteDialog' = [open |-> FALSE, clip |-> NoClip]
  /\ lastOp' = "replaceCanceled"
  /\ UNCHANGED <<selfVars, field, pendingChange, confirmOpen, clipboard>>

\* the clipboard changes and 'datainclipboard' is dispatched: the handler of
\* every listening selector runs
DataInClipboard(clip, reset) ==
  /\ clipboard' = clip
  /\ Apply([Cur EXCEPT
        !.pasteDisabled = dataInClipboard(libraries, @, clip, reset),
        !.otherSelector.pasteDisabled =
            dataInClipboard(otherSelector.libraries, @, clip, reset)])
  /\ lastOp' = IF reset THEN "clipboardReset" ELSE "datainclipboard"
  /\ UNCHANGED <<field, pendingChange, confirmOpen, pasteDialog>>

\* the library list of the other selector arrives
OtherLibrariesLoaded(libList) ==
  /\ ~otherSelector.libraries.def
  /\ Apply([Cur EXCEPT
        !.otherSelector.libraries = [def |-> TRUE, list |-> libList],
        !.otherSelector.pasteDisabled =
            IF Len(libList) # 1 /\ canPaste(libList, clipboard) THEN FALSE ELSE @])
  /\ lastOp' = "otherLibrariesLoaded"
  /\ UNCHANGED <<field, pendingChange, confirmOpen, pasteDialog, clipboard>>

\* the user edits a rendered child field: its validate() result changes
ChildEdit(i) ==
  /\ children.def
  /\ i \in 1..Len(children.list)
  /\ ~children.list[i].removed
  /\ Apply([Cur EXCEPT !.children.list[i].valid = ~@])
  /\ lastOp' = "childEdit"
  /\ UNCHANGED <<field, pendingChange, confirmOpen, pasteDialog, clipboard>>

\* the user edits a field of the metadata form
MetadataEdit(i) ==
  /\ metadataForm.kind = "form"
  /\ i \in 1..Len(metadataForm.children)
  /\ ~metadataForm.children[i].removed
  /\ Apply([Cur EXCEPT !.metadataForm.children[i].valid = ~@])
  /\ lastOp' = "metadataEdit"
  /\ UNCHANGED <<field, pendingChange, confirmOpen, pasteDialog, clipboard>>

Next ==
  \/ \E libList \in LibLists : LibrariesLoaded(libList)
  \/ \E v \in {NONE, "A", "B", "R"} : SelectChange(v)
  \/ ChangeTimeout
  \/ ConfirmChange
  \/ CancelChange
  \/ \E i \in 1..MaxFetches : SchemaLoaded(i)
  \/ \E clip \in ClipValues : ReplaceContent(clip)
  \/ ReplaceConfirm
  \/ ReplaceCancel
  \/ \E i \in 1..2 : ChildEdit(i)
  \/ MetadataEdit(1)

Spec == Init /\ [][Next]_vars

\* another part of the editor registers a callback with change(callback)
Change(callback) ==
  /\ Len(changes) < MaxCallbacks
  /\ callback = Len(changes) + 1
  /\ Apply(changeCallback(Cur, callback))
  /\ lastOp' = "change"
  /\ UNCHANGED <<field, pendingChange, confirmOpen, pasteDialog, clipboard>>

\* the selector with listeners registering for changes of library
NextChange ==
  \/ \E libList \in LibLists : LibrariesLoaded(libList)
  \/ \E v \in {NONE, "A", "B"} : SelectChange(v)
  \/ ChangeTimeout
  \/ ConfirmChange
  \/ CancelChange
  \/ \E i \in 1..MaxFetches : SchemaLoaded(i)
  \/ \E callback \in 1..MaxCallbacks : Change(callback)

SpecChange == Init /\ [][NextChange]_vars

\* requests that were sent are answered and timeouts that were set run; the
\* user and the other parts of the editor need not do anything
FairSpecChange ==
  /\ SpecChange
  /\ WF_vars(\E libList \in LibLists : LibrariesLoaded(libList))
  /\ WF_vars(\E i \in 1..MaxFetches : SchemaLoaded(i))
  /\ WF_vars(ChangeTimeout)

\* another part of the editor calls loadLibrary(libraryName, preserveParams)
LoadLibraryCall(libraryName, preserveParams) ==
  /\ Len(fetches) < MaxFetches
  /\ Apply(loadLibrary(Cur, libraryName, preserveParams))
  /\ lastOp' = "loadLibrary"
  /\ UNCHANGED <<field, pendingChange, confirmOpen, pasteDialog, clipboard>>

\* the selector with a library loaded through its loadLibrary method, before
\* or after the library list arrives, and with change listeners
NextEarlyLoad ==
  \/ \E libList \in LibLists : LibrariesLoaded(libList)
  \/ \E name \in {"A", "B"}, preserve \in BOOLEAN : LoadLibraryCall(name, preserve)
  \/ \E i \in 1..MaxFetches : SchemaLoaded(i)
  \/ \E callback \in 1..MaxCallbacks : Change(callback)

SpecEarlyLoad == Init /\ [][NextEarlyLoad]_vars

\* the selector is removed: remove() runs
Remove ==
  /\ Apply(remove(Cur))
  /\ lastOp' = "remove"
  /\ UNCHANGED <<field, pendingChange, confirmOpen, pasteDialog, clipboard>>

DescC == Descriptor("C", "Title C", FALSE)

\* the selector under an ancestor with common fields shared with another
\* selector
NextCommon ==
  \/ LibrariesLoaded(<<DescA, DescC>>)
  \/ \E v \in {NONE, "A", "C"} : SelectChange(v)
  \/ ChangeTimeout
  \/ ConfirmChange
  \/ CancelChange
  \/ \E i \in 1..MaxFetches : SchemaLoaded(i)
  \/ Remove

SpecCommon == InitCommon /\ [][NextCommon]_vars

\* the library list arrives, with any descriptors, and the schemas it asks for
NextListArrival ==
  \/ \E libList \in ArrivingLists : LibrariesLoaded(libList)
  \/ \E i \in 1..MaxFetches : SchemaLoaded(i)

SpecListArrival == Init /\ [][NextListArrival]_vars

\* two selectors listening to a clipboard that other parts of the editor write
NextClipboard ==
  \/ \E libList \in LibLists : LibrariesLoaded(libList)
  \/ \E libList \in LibLists : OtherLibrariesLoaded(libList)
  \/ \E i \in 1..MaxFetches : SchemaLoaded(i)
  \/ \E clip \in ClipboardStates, reset \in BOOLEAN : DataInClipboard(clip, reset)

SpecClipboard == InitClipboard /\ [][NextClipboard]_vars

----------------------------------------------------------------------------
(* Properties *)

\* a library's child form is rendered: this.children holds an instance that
\* has not been removed
Rendered == children.def /\ \E i \in 1..Len(children.list) : ~children.list[i].removed

LibraryKeys == {"library", "params", "subContentId", "metadata"}

\* the step is the deferred part of the select change handler
ChangeTimeoutStep == lastOp' \in {"changeLoads", "changeAsksConfirmation"}

\* the step called loadLibrary(name) without preserveParams
LoadedWithoutPreserve(name) ==
  IF name = NONE
  THEN /\ fetches' = fetches
       /\ libwrapClass' = "libwrap"
       /\ \A k \in LibraryKeys : ~Has(params', k)
  ELSE fetches' = Append(fetches, [lib |-> name, preserve |-> FALSE])

\* C1 as stated: a selection change loads the chosen library at once when no
\* library is loaded (no child form is rendered); when one is loaded it leaves
\* the children and the parameter object alone, and so does 'canceled'.
C1_LoadsAtOnceUnlessLoaded ==
  [][ /\ (ChangeTimeoutStep /\ ~Rendered) => lastOp' = "changeLoads"
      /\ (ChangeTimeoutStep /\ Rendered) =>
            (lastOp' = "changeAsksConfirmation" /\ UNCHANGED <<params, children>>)
      /\ lastOp' = "changeCanceled" => UNCHANGED <<params, children>>
    ]_vars

\* C1 amended: the change handler decides on params.library. When it is not
\* set, loadLibrary runs at once with the selected value; when it is set (by the
\* constructor or a paste, even before any schema has arrived) the handler only
\* shows the dialog. The change event, the handler and 'canceled' leave children,
\* metadata form, parameter object and fetches alone; 'confirmed' calls loadLibrary.
C1_ChangeKeyedOnParamsLibrary ==
  [][ /\ lastOp' = "selectChange" =>
            (~confirmOpen' /\ UNCHANGED <<params, children, metadataForm, fetches>>)
      /\ (ChangeTimeoutStep /\ ~Has(params, "library")) =>
            (lastOp' = "changeLoads" /\ ~confirmOpen' /\ LoadedWithoutPreserve(selectVal))
      /\ (ChangeTimeoutStep /\ Has(params, "library")) =>
            (/\ lastOp' = "changeAsksConfirmation"
             /\ confirmOpen'
             /\ UNCHANGED <<params, children, metadataForm, fetches>>)
      /\ lastOp' = "changeCanceled" =>
            UNCHANGED <<params, children, metadataForm, fetches>>
      /\ lastOp' = "changeConfirmed" =>
            (confirmOpen /\ ~confirmOpen' /\ LoadedWithoutPreserve(selectVal))
    ]_vars

\* the dialog is open over a rendered child form that nothing has touched
C1_Witness ==
  /\ lastOp = "changeAsksConfirmation"
  /\ confirmOpen
  /\ Rendered
  /\ Has(params, "library")
  /\ selectVal # params["library"]

\* C2: once no schema fetch is in flight, the selector is Loaded for the library
\* of the latest loadLibrary call (the one the wrapper's class names):
\* currentLibrary and params.library are that library and the children are the
\* ones built from its schema, in whatever order overlapping fetches completed.
C2_OverlappingLoadsSettleOnLatest ==
  (fetches = <<>> /\ libwrapClass # "libwrap") =>
     /\ libwrapClass = EditorClass(currentLibrary)
     /\ LibraryOf(params) = currentLibrary
     /\ children.def
     /\ \A i \in 1..Len(children.list) :
          children.list[i].lib = currentLibrary /\ ~children.list[i].removed

\* loadLibrary('-') has just run
NoneJustLoaded == lastOp \in {"changeLoads", "changeConfirmed"} /\ selectVal = NONE

\* C3: after loadLibrary('-') the parameter object has none of the keys library,
\* params, subContentId, metadata, and this.children holds no field instance for
\* validate or forEachChild to visit.
C3_NoneClearsParamsAndChildren ==
  NoneJustLoaded =>
     /\ \A k \in LibraryKeys : ~Has(params, k)
     /\ ~Rendered
     /\ children.def => Len(children.list) = 0

\* the fetches in flight without the i-th
WithoutFetch(i) ==
  [j \in 1..(Len(fetches) - 1) |-> IF j < i THEN fetches[j] ELSE fetches[j + 1]]

\* C4: a schema arriving for a load without preserveParams resets params and
\* metadata to empty and assigns an identifier never handed out before (so one
\* different from the previous library's); a schema arriving for a load with
\* preserveParams keeps an existing subContentId, params and metadata, and
\* generates a subContentId only when there is none.
C4_SchemaArrivalParams ==
  [][ lastOp' = "schemaLoaded" =>
        \E i \in 1..Len(fetches) :
          /\ fetches' = WithoutFetch(i)
          /\ params'["library"] = fetches[i].lib
          /\ Has(params, "subContentId") => params["subContentId"] < nextUUID
          /\ ~fetches[i].preserve =>
                /\ params'["params"] = EmptyObj
                /\ params'["metadata"] = EmptyObj
                /\ params'["subContentId"] = nextUUID
                /\ nextUUID' = nextUUID + 1
          /\ fetches[i].preserve =>
                /\ Has(params, "params") => params'["params"] = params["params"]
                /\ Has(params, "metadata") => params'["metadata"] = params["metadata"]
                /\ IF Has(params, "subContentId")
                   THEN params'["subContentId"] = params["subContentId"]
                        /\ nextUUID' = nextUUID
                   ELSE params'["subContentId"] = nextUUID
                        /\ nextUUID' = nextUUID + 1
    ]_vars

\* library B has been loaded after library A: its schema arrived, params and
\* metadata are empty and the identifier is the second one generated
C4_Witness ==
  /\ lastOp = "schemaLoaded"
  /\ currentLibrary = "B"
  /\ params = ("library" :> "B") @@ ("params" :> EmptyObj) @@ ("subContentId" :> 4)
              @@ ("metadata" :> EmptyObj)
  /\ Rendered

\* replaceContent(clip) finds canPaste(clip) false
PasteUnsupported(clip) ==
  /\ ~(clip.present /\ clip.hasGeneric /\ ~libraries.def)
  /\ ~canPaste(libraries.list, clip)

\* C5: replaceContent with a clipboard value for which canPaste is false changes
\* nothing: parameter object, currentLibrary, displayed selection, children and
\* metadata form are unchanged, no dialog opens and no fetch is issued.
C5_UnsupportedPasteIsNoOp ==
  [][ \A clip \in ClipValues :
        (ReplaceContent(clip) /\ PasteUnsupported(clip)) =>
           /\ lastOp' = "replaceRejected"
           /\ UNCHANGED <<params, paramsRef, currentLibrary, selectVal, options,
                          children, metadataForm, libwrapClass, fetches,
                          confirmOpen, pasteDialog, copyDisabled, pasteDisabled>>
    ]_vars

\* a paste has been rejected while a library is loaded
C5_Witness ==
  /\ lastOp = "replaceRejected"
  /\ libraries.def
  /\ Has(params, "library")
  /\ Rendered

\* the step ran the callback replaceContent hands to confirmReplace, for clip
PasteOf(clip) ==
  \/ lastOp' = "replaceDone" /\ ReplaceContent(clip)
  \/ lastOp' = "replaceConfirmed" /\ pasteDialog.clip = clip

\* C6: the parameter object keeps its identity; a supported paste asks for
\* confirmation only when a library is set; once it goes through, the object
\* carries exactly the keys and values of the clipboard's generic payload, the
\* displayed selection is the clipboard's library and that library is loaded
\* with preserveParams = true.
C6_PasteReplacesInPlace ==
  [][ /\ paramsRef' = paramsRef
      /\ lastOp' = "replaceAsksConfirmation" =>
            (Has(params, "library") /\ pasteDialog'.open /\ UNCHANGED <<params, fetches>>)
      /\ lastOp' = "replaceDone" => ~Has(params, "library")
      /\ \A clip \in ClipValues :
           PasteOf(clip) =>
              /\ params' = clip.generic
              /\ selectVal' = LibraryOf(clip.generic)
              /\ fetches' = Append(fetches, [lib |-> LibraryOf(clip.generic),
                                             preserve |-> TRUE])
    ]_vars

\* C7: canPaste is true exactly when the clipboard has a generic payload whose
\* library is the uberName of some descriptor of the loaded list, and false for
\* an absent or empty clipboard.
C7_CanPasteIffLibraryInList ==
  libraries.def =>
     /\ \A clip \in ClipValues :
          canPaste(libraries.list, clip) <=>
             /\ clip.present
             /\ clip.hasGeneric
             /\ Has(clip.generic, "library")
             /\ \E i \in 1..Len(libraries.list) :
                  libraries.list[i].uberName = clip.generic["library"]
     /\ ~canPaste(libraries.list, NoClip)
     /\ ~canPaste(libraries.list, ClipNoGeneric)

\* replaceContent found the clipboard's library as the third descriptor of the
\* list and asked for confirmation
C7_Witness ==
  /\ pasteDialog.open
  /\ Len(libraries.list) = 3
  /\ libraries.list[3].uberName = LibraryOf(pasteDialog.clip.generic)

\* C8: in every state in which no library is selected (params.library absent),
\* validate() is true for an optional field and false for a required one; also
\* before the library list has arrived, with an empty list, and after a loaded
\* library was deselected with '-'.
C8_UnselectedValidIffOptional ==
  ~Has(params, "library") => (validate(Cur, field) <=> field.optional)

MetadataValidates ==
  metadataForm.kind = "form" => AllValidate(metadataForm.children)

ChildrenValidate == children.def => AllValidate(children.list)

\* a library is selected and a rendered child's validate() returns false
SelectedWithFailingChild ==
  /\ Has(params, "library")
  /\ children.def
  /\ \E i \in 1..Len(children.list) :
       ~children.list[i].removed /\ ~children.list[i].valid

C10_CancelRevertsToParamsLibrary ==
  [][ lastOp' = "changeCanceled" =>
        /\ selectVal' = LibraryOf(params)
        /\ UNCHANGED <<params, currentLibrary, children>>
    ]_vars

\* C11 as stated: in every state params.library is defined exactly when a
\* library is loaded (a current library is recorded and its child form is
\* rendered), and the two are then equal.
C11_ParamsLibraryIffLoaded ==
  /\ Has(params, "library") <=> (currentLibrary # Undef /\ Rendered)
  /\ Has(params, "library") => params["library"] = currentLibrary

\* C11 amended: once the library list has arrived and no schema fetch is in
\* flight, params.library is defined exactly when a library is loaded (a
\* current library is recorded and its child form is rendered) and then equals
\* the recorded current library; right after '-' was loaded params.library is
\* absent and no child form is rendered.
C11_SettledParamsLibraryIffLoaded ==
  /\ (libraries.def /\ fetches = <<>>) =>
        /\ Has(params, "library") <=> (currentLibrary # Undef /\ Rendered)
        /\ Has(params, "library") => params["library"] = currentLibrary
  /\ NoneJustLoaded => (~Has(params, "library") /\ ~Rendered)

\* library B is loaded after library A and nothing is in flight
C11_Witness ==
  /\ libraries.def
  /\ fetches = <<>>
  /\ lastOp = "schemaLoaded"
  /\ currentLibrary = "B"
  /\ LibraryOf(params) = "B"
  /\ Rendered
  /\ nextUUID > 4

\* the step is librariesLoaded receiving a list of exactly one descriptor
SingleListArrives == lastOp' = "librariesLoaded" /\ Len(libraries'.list) = 1

\* C12: when the list holds exactly one descriptor, the selection control is
\* hidden and that descriptor's uberName is loaded with preserveParams = true,
\* the parameter object being kept.
C12_SingleDescriptorIsLoaded ==
  [][ SingleListArrives =>
        /\ selectHidden'
        /\ params' = params
        /\ \E i \in 1..Len(fetches') :
             fetches'[i] = [lib |-> libraries'.list[1].uberName, preserve |-> TRUE]
    ]_vars

\* the values of the options after the first
OptionValues(opts) == { opts[i] : i \in 2..Len(opts) }

\* the uberNames of the descriptors of list l that satisfy Shown
Shown(l, Cond(_)) == { l[i].uberName : i \in { j \in 1..Len(l) : Cond(l[j]) } }

\* C13 as stated: the options are one '-' option plus one for every descriptor
\* with a defined title that is unrestricted or currently selected.
C13_OptionsAreTitledUnrestrictedOrSelected ==
  [][ lastOp' = "librariesLoaded" =>
        LET Cond(d) == d.title # Undef /\ (~d.restricted \/ d.uberName = LibraryOf(params))
        IN /\ options'[1] = NONE
           /\ NONE \notin OptionValues(options')
           /\ OptionValues(options') = Shown(libraries'.list, Cond)
           /\ Len(options') = 1 + Cardinality(Shown(libraries'.list, Cond))
    ]_vars

\* C13 amended: the options are one '-' option plus, in list order, one for
\* every descriptor that is currently selected (whatever its title and
\* restriction) or has a defined title and is unrestricted; the displayed
\* selection is the currently selected descriptor when the list has it and
\* '-' otherwise.
C13_OptionsAreSelectedOrTitledUnrestricted ==
  [][ lastOp' = "librariesLoaded" =>
        LET Cond(d) == d.uberName = LibraryOf(params) \/ (d.title # Undef /\ ~d.restricted)
            l == libraries'.list
        IN /\ options'[1] = NONE
           /\ NONE \notin OptionValues(options')
           /\ OptionValues(options') = Shown(l, Cond)
           /\ Len(options') = 1 + Cardinality(Shown(l, Cond))
           /\ \A i, j \in 1..Len(l) :
                (i < j /\ Cond(l[i]) /\ Cond(l[j])) =>
                   \E a, b \in 2..Len(options') :
                      a < b /\ options'[a] = l[i].uberName /\ options'[b] = l[j].uberName
           /\ selectVal' = IF LibraryOf(params) \in Shown(l, Cond)
                            THEN LibraryOf(params) ELSE NONE
    ]_vars

\* the list arrived with the selected library A untitled and restricted, and
\* with library B titled and unrestricted after it: both have an option
C13_Witness ==
  /\ lastOp = "librariesLoaded"
  /\ Len(libraries.list) = 2
  /\ libraries.list[1] = Descriptor("A", Undef, TRUE)
  /\ libraries.list[2] = Descriptor("B", "Title", FALSE)
  /\ options = <<NONE, "A", "B">>
  /\ selectVal = "A"

\* callback c has been registered
Registered(c) == \E i \in 1..Len(changes) : changes[i] = c

\* the latest run of change() invoked callback c
Invoked(c) == \E i \in 1..Len(lastRun) : lastRun[i].callback = c

\* a library's load has completed and nothing is in flight
LoadCompleted ==
  /\ libraries.def
  /\ fetches = <<>>
  /\ currentLibrary # Undef
  /\ Rendered

\* C14: a callback registered with change(callback) while a library's load has
\* completed (and has fired the earlier callbacks) is eventually invoked.
C14_RegisteredIsEventuallyInvoked ==
  \A c \in 1..MaxCallbacks : (Registered(c) /\ LoadCompleted) ~> Invoked(c)

\* the step ran change() without an argument
ChangeRuns == lastOp' = "schemaLoaded" /\ libraries.def

\* C15: each run of change() without an argument invokes every registered
\* callback exactly once, in registration order, each with the descriptor of
\* the list whose uberName is the current library (undefined when the list has
\* none).
C15_ChangeRunsAllInOrder ==
  [][ ChangeRuns =>
        /\ Len(lastRun') = Len(changes)
        /\ \A i \in 1..Len(changes) :
             /\ lastRun'[i].callback = changes[i]
             /\ IF \E j \in 1..Len(libraries.list) :
                      libraries.list[j].uberName = currentLibrary'
                THEN /\ lastRun'[i].library.found
                     /\ lastRun'[i].library.desc.uberName = currentLibrary'
                     /\ \E j \in 1..Len(libraries.list) :
                          lastRun'[i].library.desc = libraries.list[j]
                ELSE ~lastRun'[i].library.found
    ]_vars

\* two callbacks were registered and B's schema arrived: both ran, in order,
\* with B's descriptor
C15_Witness ==
  /\ lastOp = "schemaLoaded"
  /\ currentLibrary = "B"
  /\ changes = <<1, 2>>
  /\ lastRun = <<[callback |-> 1, library |-> Found(DescB)],
                 [callback |-> 2, library |-> Found(DescB)]>>

\* C16: remove() is idempotent: a second remove() right after a remove()
\* changes neither this selector's children, metadata form and DOM nor the
\* ancestor's common-fields table.
C16_RemoveIsIdempotent ==
  [][ lastOp' = "remove" =>
        LET once == Cur'
            twice == remove(once)
        IN /\ twice.children = once.children
           /\ twice.metadataForm = once.metadataForm
           /\ twice.detached = once.detached
           /\ twice.commonFields = once.commonFields
    ]_vars

\* the entries of a sequence that are not v, in order
RECURSIVE Without(_, _)
Without(seq, v) ==
  IF seq = <<>> THEN <<>>
  ELSE IF Head(seq) = v THEN Without(Tail(seq), v)
  ELSE <<Head(seq)>> \o Without(Tail(seq), v)

\* C18: in a step that does not render, a common field's table entry goes
\* away only when this selector was its sole parent; an entry another selector
\* still references stays, with that selector and its setter in place, and
\* only this selector's own entries leave the parents and setter lists.
C18_SharedFieldsRemovedOnlyBySoleParent ==
  [][ lastOp' # "schemaLoaded" =>
        \A p \in DOMAIN commonFields : \A n \in DOMAIN commonFields[p] :
          LET e == commonFields[p][n]
          IN /\ p \notin DOMAIN commonFields' => e.parents = <<THIS>>
             /\ p \in DOMAIN commonFields' =>
                   /\ n \in DOMAIN commonFields'[p]
                   /\ \/ commonFields'[p][n] = e
                      \/ /\ commonFields'[p][n].parents = Without(e.parents, THIS)
                         /\ commonFields'[p][n].setValues =
                               Without(e.setValues, SetValueOf(THIS))
    ]_vars

\* the step dispatched 'datainclipboard'
ClipboardNotified == lastOp' \in {"datainclipboard", "clipboardReset"}

\* the paste button of a selector with list libs after a notification
PasteRecomputed(libs, before, after) ==
  IF libs.def
  THEN ~after <=> (lastOp' = "datainclipboard" /\ canPaste(libs.list, clipboard'))
  ELSE after = before

\* C17: after each 'datainclipboard' notification every listening selector
\* whose list is loaded has its paste button enabled exactly when the
\* notification is not a reset and canPaste of the current clipboard holds for
\* its own list; a selector without a list is left as it was.
C17_EachSelectorRecomputesPaste ==
  [][ ClipboardNotified =>
        /\ PasteRecomputed(libraries, pasteDisabled, pasteDisabled')
        /\ PasteRecomputed(otherSelector.libraries, otherSelector.pasteDisabled,
                           otherSelector'.pasteDisabled)
        /\ UNCHANGED <<params, currentLibrary, libraries, children, selectVal,
                       options, fetches>>
        /\ otherSelector'.libraries = otherSelector.libraries
    ]_vars

\* library B came into the clipboard: this selector, whose list has B, can
\* paste; the other selector, whose list has only A, cannot
C17_Witness ==
  /\ lastOp = "datainclipboard"
  /\ clipboard = ClipOf(GenericB)
  /\ Len(libraries.list) = 3
  /\ ~pasteDisabled
  /\ otherSelector.libraries = [def |-> TRUE, list |-> <<DescA>>]
  /\ otherSelector.pasteDisabled

\* change() ran in the step: every registered callback was invoked once
CallbacksRan ==
  /\ Len(lastRun') = Len(changes)
  /\ \A i \in 1..Len(changes) : lastRun'[i].callback = changes[i]

\* C19: when a schema arrives before the library list, the change callbacks
\* are not run and the run-later flag is set; librariesLoaded then runs them
\* exactly once and clears the flag.
C19_EarlySchemaDefersCallbacks ==
  [][ /\ (lastOp' = "schemaLoaded" /\ ~libraries.def) =>
            (lastRun' = lastRun /\ runChangeCallback')
      /\ (lastOp' = "librariesLoaded" /\ runChangeCallback) =>
            (CallbacksRan /\ ~runChangeCallback')
    ]_vars

\* the settings the descriptor named libraryName carries in list libs, if any
SettingsOfDescriptor(libs, libraryName) ==
  LET hits == { i \in 1..Len(libs) : libs[i].uberName = libraryName }
  IN IF hits = {} THEN NoSettings ELSE libs[CHOOSE i \in hits : TRUE].metadata

\* C20: with the list loaded, findLibraryMetadataSettings(libraryName) returns
\* the metadata settings of the descriptor whose uberName is libraryName when
\* it carries settings, and the default otherwise.
C20_SettingsOfNamedDescriptor ==
  libraries.def =>
    \A libraryName \in {"A", "B", "R"} :
      LET m == SettingsOfDescriptor(libraries.list, libraryName)
          r == findLibraryMetadataSettings(Cur, libraryName)
      IN IF m.def
         THEN r = [disable |-> m.disable,
                   disableExtraTitleField |-> m.disableExtraTitleField]
         ELSE r = [disable |-> ~enableMetadata(libraryName),
                   disableExtraTitleField |-> FALSE]

\* no schema fetch in flight, no deferred change handler, no dialog open
Quiescent == fetches = <<>> /\ pendingChange = 0 /\ NoDialog

\* C21: whenever the selector is quiescent (its list has arrived and the
\* selection control is visible), the selection control shows params.library,
\* or '-' when params.library is absent.
C21_QuiescentSelectionShowsParamsLibrary ==
  (libraries.def /\ ~selectHidden /\ Quiescent) =>
     selectVal = (IF Has(params, "library") THEN params["library"] ELSE NONE)

\* the step changes params.library from one library to a different library
LibraryChanges ==
  /\ Has(params, "library")
  /\ Has(params', "library")
  /\ params'["library"] # params["library"]

\* the step belongs to a clipboard paste
PasteStep ==
  lastOp' \in {"replaceDone", "replaceAsksConfirmation", "replaceConfirmed",
               "replaceCanceled", "replaceRejected", "replaceThrows"}

\* C22: outside a paste, every step that changes params.library from one
\* library to a different one leaves params.params and params.metadata empty
\* and assigns a subContentId never handed out before, whatever issued the
\* load (the loads of librariesLoaded for a single-entry list included).
C22_LibraryChangeResetsParams ==
  [][ (LibraryChanges /\ ~PasteStep) =>
        /\ params'["params"] = EmptyObj
        /\ params'["metadata"] = EmptyObj
        /\ params'["subContentId"] = nextUUID
        /\ nextUUID' = nextUUID + 1
    ]_vars

\* the libraries a selector may be constructed with as its selection
InitiallySelectable == { LibraryOf(constructorParams(arg)) : arg \in ConstructorArgs }

\* the libraries of the list that are restricted or untitled and cannot have
\* been the initial selection
Withheld ==
  { libraries.list[i].uberName :
      i \in { j \in 1..Len(libraries.list) :
               /\ libraries.list[j].restricted \/ libraries.list[j].title = Undef
               /\ libraries.list[j].uberName \notin InitiallySelectable } }

\* C23: a library of the list that is restricted or untitled, and was not the
\* initial selection, has no option and is neither params.library nor the
\* current library, whatever was selected and pasted.
C23_WithheldLibraryIsNeverSelected ==
  \A w \in Withheld :
     /\ w \notin OptionValues(options)
     /\ LibraryOf(params) # w
     /\ currentLibrary # w

\* C24: one run of librariesLoaded issues at most one schema fetch.
C24_ListArrivalFetchesAtMostOnce ==
  [][ lastOp' = "librariesLoaded" => Len(fetches') <= Len(fetches) + 1 ]_vars

-----------------------------------------------------------------------------
(* Copying the selection to the clipboard *)

\* H5P.clipboardify(params): the clipboard value made from a parameter object,
\* which carries the object as its generic payload
clipboardify(p) == ClipOf(p)

\* the click handler of the copy button: nothing when the button has class
\* 'disabled'; otherwise validate() and H5P.clipboardify(this.params), upon
\* which 'datainclipboard' is dispatched to every listening selector
Copy ==
  /\ ~selectHidden
  /\ NoDialog
  /\ pendingChange = 0
  /\ IF copyDisabled
     THEN /\ lastOp' = "copyIgnored"
          /\ UNCHANGED <<selfVars, clipboard>>
     ELSE /\ validate(Cur, field) \in BOOLEAN
          /\ clipboard' = clipboardify(params)
          /\ Apply([Cur EXCEPT
                !.pasteDisabled = dataInClipboard(libraries, @, clipboard', FALSE),
                !.otherSelector.pasteDisabled =
                    dataInClipboard(otherSelector.libraries, @, clipboard', FALSE)])
          /\ lastOp' = "copied"
  /\ UNCHANGED <<field, pendingChange, confirmOpen, pasteDialog>>

\* the selector with its copy and paste buttons in use: what is pasted is
\* what the clipboard holds
NextCopy ==
  \/ \E libList \in LibLists : LibrariesLoaded(libList)
  \/ \E v \in {NONE, "A", "B"} : SelectChange(v)
  \/ ChangeTimeout
  \/ ConfirmChange
  \/ CancelChange
  \/ \E i \in 1..MaxFetches : SchemaLoaded(i)
  \/ ReplaceContent(clipboard)
  \/ ReplaceConfirm
  \/ ReplaceCancel
  \/ Copy

SpecCopy == InitClipboard /\ [][NextCopy]_vars

\* C25: whenever the copy button is enabled params.library is defined: the
\* button becomes enabled only when a schema arrives, loadLibrary('-') leaves
\* it disabled, and what a click on it puts on the clipboard is the parameter
\* object of a selected library.
C25_CopyEnabledOnlyWithLibrary ==
  [][ /\ ~copyDisabled' => Has(params', "library")
      /\ (copyDisabled /\ ~copyDisabled') => lastOp' = "schemaLoaded"
      /\ NoneJustLoaded' => copyDisabled'
      /\ lastOp' = "copied" =>
            /\ Has(params, "library")
            /\ clipboard' = ClipOf(params)
            /\ Has(clipboard'.generic, "library")
    ]_vars

\* library B was selected and loaded, and has been copied to the clipboard
C25_Witness ==
  /\ lastOp = "copied"
  /\ ~copyDisabled
  /\ LibraryOf(params) = "B"
  /\ clipboard = ClipOf(params)
  /\ Rendered
====
